---- MODULE Spec2Model ----
(***************************************************************************)
(* Model of the notebook load-ecog-data-w-mne.ipynb: an NWB container is   *)
(* opened, a time window of the ElectricalSeries is sliced, the baseline   *)
(* epoch and the "bad" electrode flags are read, and an MNE RawArray is    *)
(* built from the transposed window.  The code cells run top to bottom;    *)
(* an exception raised by a cell ends the run.                             *)
(*                                                                         *)
(* Optional values (a Python name not bound yet) are sequences of length   *)
(* at most one: << >> is "not bound", <<v>> is "bound to v".               *)
(* Sampling rates are fixed-point numbers in tenths of a hertz (rate10).   *)
(* A 2-D array is a record [nrows, ncols, at] with at[<<r, c>>] the        *)
(* element of zero-based row r and column c.                               *)
(***************************************************************************)
EXTENDS Integers, Sequences, FiniteSets, TLC

VARIABLES file, container, pc, err, handle, nwb, start, num_secs,
          fs, signal, n_channels, start_break, stop_break, bads, info, raw

vars == <<file, container, pc, err, handle, nwb, start, num_secs,
          fs, signal, n_channels, start_break, stop_break, bads, info, raw>>

-----------------------------------------------------------------------------
(* Bounds of the model.                                                    *)

MaxSamples == 7

MaxChannels == 2

MaxStart == 1

MaxSecs == 2

MaxEpochs == 2

MaxElectrodes == 3

MaxBadRows == 11

-----------------------------------------------------------------------------
(* Python and numpy/h5py primitives the cells use.                         *)

Min(a, b) == IF a < b THEN a ELSE b

Max(a, b) == IF a > b THEN a ELSE b

\* A mutant of PyRound: truncation (int(rate)) instead of rounding.
PyRoundTrunc(r10) == r10 \div 10

\* round(x) of Python 3 on a float given in tenths: nearest integer, a tie
\* (x.5, exactly representable) goes to the even neighbour.
PyRound(r10) ==
    LET q == r10 \div 10
        rem == r10 % 10
    IN  IF rem < 5 THEN q
        ELSE IF rem > 5 THEN q + 1
        ELSE IF q % 2 = 0 THEN q ELSE q + 1

DigitChars == <<"0", "1", "2", "3", "4", "5", "6", "7", "8", "9">>

RECURSIVE PyStr(_)
\* str(i) for a non-negative int: its decimal digits, most significant first.
PyStr(i) ==
    IF i < 10 THEN <<DigitChars[i + 1]>>
    ELSE Append(PyStr(i \div 10), DigitChars[(i % 10) + 1])

\* slice(lo, hi).indices(n) with step 1: both ends are clipped to 0 .. n and
\* a negative end counts from the back; nothing is raised.
SliceIndices(lo, hi, n) ==
    LET clip(x) == IF x < 0 THEN Max(x + n, 0) ELSE Min(x, n)
    IN  <<clip(lo), clip(hi)>>

SliceLen(lo, hi, n) ==
    LET b == SliceIndices(lo, hi, n) IN Max(b[2] - b[1], 0)

\* A mutant of GetItem: the window starts one sample late.
GetItemLate(data, lo, hi) ==
    LET b == SliceIndices(lo + 1, hi + 1, data.nrows)
        len == Max(b[2] - b[1], 0)
    IN  [nrows |-> len, ncols |-> data.ncols,
         at |-> [p \in (0 .. len - 1) \X (0 .. data.ncols - 1) |->
                    data.at[<<b[1] + p[1], p[2]>>]]]

\* data[lo:hi, :] : the rows the slice selects, every column, in order.
GetItem(data, lo, hi) ==
    LET b == SliceIndices(lo, hi, data.nrows)
        len == SliceLen(lo, hi, data.nrows)
    IN  [nrows |-> len, ncols |-> data.ncols,
         at |-> [p \in (0 .. len - 1) \X (0 .. data.ncols - 1) |->
                    data.at[<<b[1] + p[1], p[2]>>]]]

\* A mutant of Transpose: the array is reshaped to (C, T) in storage order
\* instead of being transposed.
TransposeReshape(a) ==
    [nrows |-> a.ncols, ncols |-> a.nrows,
     at |-> [p \in (0 .. a.ncols - 1) \X (0 .. a.nrows - 1) |->
                LET k == p[1] * a.nrows + p[2]
                IN  a.at[<<k \div a.ncols, k % a.ncols>>]]]

\* signal.T : element (c, t) of the result is element (t, c) of a.
Transpose(a) ==
    [nrows |-> a.ncols, ncols |-> a.nrows,
     at |-> [p \in (0 .. a.ncols - 1) \X (0 .. a.nrows - 1) |->
                a.at[<<p[2], p[1]>>]]]

\* column[i] with a zero-based index i on a table column.
ColumnGetItem(col, i) == col[i + 1]

\* A mutant of BadsOf: the rows are counted from one.
BadsOfOneBased(flags) ==
    LET enum == [i \in 1 .. Len(flags) |-> <<i, flags[i]>>]
        kept == SelectSeq(enum, LAMBDA p : p[2])
    IN  [j \in 1 .. Len(kept) |-> PyStr(kept[j][1])]

\* [str(i) for i, bad in enumerate(flags) if bad]
BadsOf(flags) ==
    LET enum == [i \in 1 .. Len(flags) |-> <<i - 1, flags[i]>>]
        kept == SelectSeq(enum, LAMBDA p : p[2])
    IN  [j \in 1 .. Len(kept) |-> PyStr(kept[j][1])]

-----------------------------------------------------------------------------
(* The input file and the containers it may hold.                          *)

SeqsUpTo(S, n) == UNION {[1 .. k -> S] : k \in 0 .. n}

FileStates == {"ok", "missing", "malformed"}

\* Sampling rates in tenths of a hertz: 1.0, 1.5, 2.5 and 2.7 Hz.
Rates10 == {10, 15, 25, 27}

\* A recording of T samples on C channels; every element is distinct.
Recording(T, C) ==
    [nrows |-> T, ncols |-> C,
     at |-> [p \in (0 .. T - 1) \X (0 .. C - 1) |-> p[1] * C + p[2]]]

EpochRows == {<<318, 334>>, <<400, 420>>}

\* The epochs table, stored by column as a DynamicTable is.
EpochTable(rows) ==
    [start_time |-> [i \in 1 .. Len(rows) |-> rows[i][1]],
     stop_time  |-> [i \in 1 .. Len(rows) |-> rows[i][2]]]

NWBFiles(rates, maxT, maxC, maxE, maxB) ==
    {[rate10 |-> r, data |-> Recording(T, C),
      epochs |-> EpochTable(rows), electrodes |-> [bad |-> flags]] :
        r \in rates, T \in 0 .. maxT, C \in 1 .. maxC,
        rows \in SeqsUpTo(EpochRows, maxE),
        flags \in SeqsUpTo(BOOLEAN, maxB)}

\* What stands for the contents of a file that cannot be read.
NoContents ==
    [rate10 |-> 15, data |-> Recording(0, 1),
     epochs |-> EpochTable(<< >>), electrodes |-> [bad |-> << >>]]

Unbound ==
    /\ pc = "open"
    /\ err = << >>
    /\ handle = "none"
    /\ nwb = << >>
    /\ start = << >>
    /\ num_secs = << >>
    /\ fs = << >>
    /\ signal = << >>
    /\ n_channels = << >>
    /\ start_break = << >>
    /\ stop_break = << >>
    /\ bads = << >>
    /\ info = << >>
    /\ raw = << >>

Init ==
    /\ file \in FileStates
    /\ IF file = "ok"
       THEN container \in NWBFiles(Rates10, MaxSamples, MaxChannels, MaxEpochs, MaxElectrodes)
       ELSE container = NoContents
    /\ Unbound

\* Initial states with long electrode tables and a short recording.
InitBads ==
    /\ file \in FileStates
    /\ IF file = "ok"
       THEN container \in NWBFiles({15}, 1, 1, 1, MaxBadRows)
       ELSE container = NoContents
    /\ Unbound

-----------------------------------------------------------------------------
(* The code cells.                                                         *)

Abort(kind) ==
    /\ err' = <<[kind |-> kind, at |-> pc]>>
    /\ pc' = "aborted"

\* A mutant of OpenNWB: a failed open is reported and tried again.
OpenNWBRetry ==
    /\ pc = "open"
    /\ IF file = "ok"
       THEN /\ handle' = "open"
            /\ nwb' = <<container>>
            /\ pc' = "params"
            /\ UNCHANGED err
       ELSE /\ err' = <<[kind |-> "FileNotFoundError", at |-> pc]>>
            /\ pc' = "open"
            /\ UNCHANGED <<handle, nwb>>
    /\ UNCHANGED <<file, container, start, num_secs, fs, signal, n_channels,
                   start_break, stop_break, bads, info, raw>>

\* nwb = pynwb.NWBHDF5IO(filepath, "r").read()
\* The NWBHDF5IO object is not bound to a name and close() is never called.
\* A path that does not resolve, or a file that is no NWB container, raises
\* before anything is bound.
OpenNWB ==
    /\ pc = "open"
    /\ \/ /\ file = "ok"
          /\ handle' = "open"
          /\ nwb' = <<container>>
          /\ pc' = "params"
          /\ UNCHANGED err
       \/ /\ file = "missing"
          /\ Abort("FileNotFoundError")
          /\ UNCHANGED <<handle, nwb>>
       \/ /\ file = "malformed"
          /\ Abort("FormatError")
          /\ UNCHANGED <<handle, nwb>>
    /\ UNCHANGED <<file, container, start, num_secs, fs, signal, n_channels,
                   start_break, stop_break, bads, info, raw>>

\* start = 20; num_secs = 60  (whole seconds chosen by the user)
SetWindow ==
    /\ pc = "params"
    /\ \E s \in 0 .. MaxStart, n \in 1 .. MaxSecs :
          /\ start' = <<s>>
          /\ num_secs' = <<n>>
    /\ pc' = "extract"
    /\ UNCHANGED <<file, container, err, handle, nwb, fs, signal, n_channels,
                   start_break, stop_break, bads, info, raw>>

\* fs = round(series.rate)
\* signal = series.data[start * fs:(start + num_secs) * fs, :]
\* _, n_channels = signal.shape
Extract ==
    /\ pc = "extract"
    /\ LET series == nwb[1]
           f == PyRound(series.rate10)
           sig == GetItem(series.data, start[1] * f, (start[1] + num_secs[1]) * f)
       IN  /\ fs' = <<f>>
           /\ signal' = <<sig>>
           /\ n_channels' = <<sig.ncols>>
    /\ pc' = "baseline"
    /\ UNCHANGED <<file, container, err, handle, nwb, start, num_secs,
                   start_break, stop_break, bads, info, raw>>

\* A mutant of ReadBaseline: the stop time is read from the last row.
ReadBaselineLastRow ==
    /\ pc = "baseline"
    /\ LET epochs == nwb[1].epochs
           n == Len(epochs.start_time)
       IN  IF n = 0
           THEN /\ Abort("IndexError")
                /\ UNCHANGED <<start_break, stop_break>>
           ELSE /\ start_break' = <<ColumnGetItem(epochs.start_time, 0)>>
                /\ stop_break' = <<ColumnGetItem(epochs.stop_time, n - 1)>>
                /\ pc' = "bads"
                /\ UNCHANGED err
    /\ UNCHANGED <<file, container, handle, nwb, start, num_secs, fs, signal,
                   n_channels, bads, info, raw>>

\* A mutant of ReadBaseline: an empty table gives (0, 0) instead of raising.
ReadBaselineDefault ==
    /\ pc = "baseline"
    /\ LET epochs == nwb[1].epochs
       IN  IF Len(epochs.start_time) = 0
           THEN /\ start_break' = <<0>>
                /\ stop_break' = <<0>>
           ELSE /\ start_break' = <<ColumnGetItem(epochs.start_time, 0)>>
                /\ stop_break' = <<ColumnGetItem(epochs.stop_time, 0)>>
    /\ pc' = "bads"
    /\ UNCHANGED <<file, container, err, handle, nwb, start, num_secs, fs, signal,
                   n_channels, bads, info, raw>>

\* start_break = nwb.epochs["start_time"][0]
\* stop_break = nwb.epochs["stop_time"][0]
\* Index 0 of an empty column raises IndexError.
ReadBaseline ==
    /\ pc = "baseline"
    /\ LET epochs == nwb[1].epochs
       IN  IF Len(epochs.start_time) = 0
           THEN /\ Abort("IndexError")
                /\ UNCHANGED <<start_break, stop_break>>
           ELSE /\ start_break' = <<ColumnGetItem(epochs.start_time, 0)>>
                /\ stop_break' = <<ColumnGetItem(epochs.stop_time, 0)>>
                /\ pc' = "bads"
                /\ UNCHANGED err
    /\ UNCHANGED <<file, container, handle, nwb, start, num_secs, fs, signal,
                   n_channels, bads, info, raw>>

\* bads = [str(i) for i, bad in enumerate(nwb.electrodes["bad"][:]) if bad]
ReadInvalidChannels ==
    /\ pc = "bads"
    /\ bads' = <<BadsOf(nwb[1].electrodes.bad)>>
    /\ pc' = "build"
    /\ UNCHANGED <<file, container, err, handle, nwb, start, num_secs, fs, signal,
                   n_channels, start_break, stop_break, info, raw>>

\* info = mne.create_info(n_channels, fs, ch_types="ecog", verbose="error")
\* info["bads"] = bads
\* raw = mne.io.RawArray(signal.T, info)
\* The notebook hands bads to the toolkit as read; it checks nothing itself.
Build ==
    /\ pc = "build"
    /\ LET i == [nchan |-> n_channels[1], sfreq |-> fs[1], ch_types |-> "ecog",
                 bads |-> bads[1]]
       IN  /\ info' = <<i>>
           /\ raw' = <<[data |-> Transpose(signal[1]), info |-> i]>>
    /\ pc' = "done"
    /\ UNCHANGED <<file, container, err, handle, nwb, start, num_secs, fs, signal,
                   n_channels, start_break, stop_break, bads>>

Next ==
    \/ OpenNWB
    \/ SetWindow
    \/ Extract
    \/ ReadBaseline
    \/ ReadInvalidChannels
    \/ Build

Spec == Init /\ [][Next]_vars

SpecBads == InitBads /\ [][Next]_vars

-----------------------------------------------------------------------------
(* Vocabulary of the properties.                                           *)

\* The record the window is cut from, once the file is read.
Series == nwb[1]

TotalSamples == Series.data.nrows

\* The window's bounds as the specification writes them.
Lower == PyRound(Series.rate10) * start[1]

Upper == PyRound(Series.rate10) * (start[1] + num_secs[1])

\* The cell that slices the window has run (it binds fs first).
ExtractRan == fs # << >>

\* The cell that reads the baseline has run, whatever came of it.
BaselineRan == signal # << >> /\ pc # "baseline"

InRange == Upper <= TotalSamples

\* n is an integer nearest to the rate r10 (given in tenths).
Nearest(n, r10) ==
    /\ 10 * n - r10 <= 5
    /\ r10 - 10 * n <= 5

RECURSIVE DecimalValue(_)
\* The number a string of decimal digits writes.
DecimalValue(s) ==
    IF Len(s) = 0 THEN 0
    ELSE LET d == CHOOSE k \in 0 .. 9 : DigitChars[k + 1] = s[Len(s)]
         IN  10 * DecimalValue(SubSeq(s, 1, Len(s) - 1)) + d

\* s is the decimal string Python prints for an int >= 0.
IsIndexString(s) ==
    /\ Len(s) >= 1
    /\ \A i \in 1 .. Len(s) : \E k \in 0 .. 9 : DigitChars[k + 1] = s[i]
    /\ Len(s) > 1 => s[1] # "0"

Flag3And7 == <<FALSE, FALSE, FALSE, TRUE, FALSE, FALSE, FALSE, TRUE>>

StageOrder ==
    {<<"open", "params">>, <<"params", "extract">>, <<"extract", "baseline">>,
     <<"baseline", "bads">>, <<"bads", "build">>, <<"build", "done">>}

-----------------------------------------------------------------------------
(* C1.  A window whose upper bound round(rate) * (start + duration) is     *)
(* greater than the record's sample count makes the slicing cell fail: no  *)
(* array is bound and the run aborts in that cell.  (The statement of the  *)
(* claim; the slice clips instead.)                                        *)
C1_OutOfRangeFails ==
    (ExtractRan /\ Upper > TotalSamples) =>
        /\ signal = << >>
        /\ pc = "aborted"
        /\ err # << >>

(* C2.  Every in-range window has exactly num_secs * round(rate) rows and  *)
(* the record's channel count as columns, whatever start is; round(rate)   *)
(* is an integer nearest to the rate; rate 400.7, start 20, num_secs 60    *)
(* gives 401 and 24060 rows.                                               *)
C2_WindowShape ==
    /\ (ExtractRan /\ InRange) =>
          /\ signal[1].nrows = num_secs[1] * fs[1]
          /\ signal[1].ncols = Series.data.ncols
          /\ n_channels = <<Series.data.ncols>>
          /\ Nearest(fs[1], Series.rate10)
    /\ PyRound(4007) = 401
    /\ SliceLen(PyRound(4007) * 20, PyRound(4007) * (20 + 60), 401 * 80) = 24060
    /\ GetItem(Recording(401 * 90, 2), PyRound(4007) * 20,
               PyRound(4007) * (20 + 60)).nrows = 24060

C2_Witness ==
    /\ ExtractRan
    /\ InRange
    /\ Series.rate10 = 27
    /\ start[1] = 1
    /\ num_secs[1] = 1
    /\ signal[1].nrows = 3
    /\ signal[1].ncols = 2

(* C3.  An in-range window is the half-open sample range [lower, upper)    *)
(* of the record over all channels: row i, channel c of the window is row  *)
(* lower + i, channel c of the record, the window has upper - lower rows   *)
(* (sample upper is not in it) and the record's channels in their order.   *)
C3_HalfOpenRange ==
    (ExtractRan /\ InRange) =>
        LET w == signal[1]
            d == Series.data
        IN  /\ fs[1] * start[1] = Lower
            /\ fs[1] * (start[1] + num_secs[1]) = Upper
            /\ w.nrows = Upper - Lower
            /\ w.ncols = d.ncols
            /\ DOMAIN w.at = (0 .. Upper - Lower - 1) \X (0 .. d.ncols - 1)
            /\ \A i \in 0 .. w.nrows - 1 : \A c \in 0 .. d.ncols - 1 :
                  w.at[<<i, c>>] = d.at[<<Lower + i, c>>]

C3_Witness ==
    /\ ExtractRan
    /\ InRange
    /\ Lower >= 2
    /\ Upper < TotalSamples
    /\ signal[1].nrows >= 2
    /\ signal[1].ncols = 2
    /\ signal[1].at[<<0, 1>>] = Series.data.at[<<Lower, 1>>]

(* C4.  No terminal state of a run that opened the file leaves the handle  *)
(* open: when the run is done or aborted the handle is closed.  (The       *)
(* statement of the claim; the notebook never closes it.)                  *)
C4_HandleReleased ==
    (pc \in {"done", "aborted"} /\ handle # "none") => handle = "closed"

(* C5.  The invalid-channel list holds exactly the decimal strings of the  *)
(* zero-based rows whose "bad" flag is true, in increasing row order and   *)
(* without duplicates; no flagged row gives the empty list and flags at    *)
(* rows 3 and 7 give ["3", "7"].                                           *)
C5_InvalidChannels ==
    bads # << >> =>
        LET flags == Series.electrodes.bad
            b == bads[1]
        IN  /\ \A j \in 1 .. Len(b) :
                  /\ IsIndexString(b[j])
                  /\ DecimalValue(b[j]) \in 0 .. Len(flags) - 1
                  /\ flags[DecimalValue(b[j]) + 1]
            /\ \A k \in 0 .. Len(flags) - 1 :
                  flags[k + 1] => \E j \in 1 .. Len(b) : DecimalValue(b[j]) = k
            /\ \A j \in 1 .. Len(b) - 1 :
                  DecimalValue(b[j]) < DecimalValue(b[j + 1])
            /\ (\A k \in 1 .. Len(flags) : ~flags[k]) => b = << >>
            /\ flags = Flag3And7 => b = << <<"3">>, <<"7">> >>

C5_Witness ==
    /\ bads # << >>
    /\ Series.electrodes.bad = Flag3And7
    /\ bads[1] = << <<"3">>, <<"7">> >>

(* C6.  Once the baseline cell has run on a non-empty epoch table, the     *)
(* baseline is the start and stop time of the table's first row, whatever  *)
(* rows follow; rows (318, 334), (400, 420) give (318, 334).               *)
C6_BaselineFirstRow ==
    (BaselineRan /\ Len(Series.epochs.start_time) > 0) =>
        /\ err = << >>
        /\ start_break = <<Series.epochs.start_time[1]>>
        /\ stop_break = <<Series.epochs.stop_time[1]>>
        /\ Series.epochs = EpochTable(<< <<318, 334>>, <<400, 420>> >>) =>
              <<start_break, stop_break>> = << <<318>>, <<334>> >>

C6_Witness ==
    /\ BaselineRan
    /\ Series.epochs = EpochTable(<< <<318, 334>>, <<400, 420>> >>)
    /\ start_break = <<318>>
    /\ stop_break = <<334>>

(* C7.  The signal object stores the window transposed and otherwise       *)
(* unchanged: shape [T, C] becomes [C, T], element (c, t) of the stored    *)
(* array is element (t, c) of the window, and transposing the stored       *)
(* array again gives the window back.                                      *)
C7_StoredTransposed ==
    raw # << >> =>
        LET a == signal[1]
            o == raw[1].data
        IN  /\ o.nrows = a.ncols
            /\ o.ncols = a.nrows
            /\ DOMAIN o.at = (0 .. a.ncols - 1) \X (0 .. a.nrows - 1)
            /\ \A c \in 0 .. a.ncols - 1 : \A t \in 0 .. a.nrows - 1 :
                  o.at[<<c, t>>] = a.at[<<t, c>>]
            /\ Transpose(o) = a
            /\ a = GetItem(Series.data, fs[1] * start[1],
                           fs[1] * (start[1] + num_secs[1]))

C7_Witness ==
    /\ raw # << >>
    /\ signal[1].nrows = 3
    /\ signal[1].ncols = 2
    /\ raw[1].data.nrows = 2
    /\ raw[1].data.ncols = 3
    /\ raw[1].data.at[<<1, 2>>] = signal[1].at[<<2, 1>>]

(* C8.  The baseline cell on an empty epoch table fails: the run aborts    *)
(* in that cell with an index error, no baseline is bound and no signal    *)
(* object is built.                                                        *)
C8_EmptyEpochsAbort ==
    (BaselineRan /\ Len(Series.epochs.start_time) = 0) =>
        /\ pc = "aborted"
        /\ err = <<[kind |-> "IndexError", at |-> "baseline"]>>
        /\ start_break = << >>
        /\ stop_break = << >>
        /\ bads = << >>
        /\ info = << >>
        /\ raw = << >>

C8_Witness ==
    /\ BaselineRan
    /\ Len(Series.epochs.start_time) = 0
    /\ pc = "aborted"
    /\ err # << >>
    /\ err[1].at = "baseline"

(* C9.  The cells run in the order open, set window, slice, baseline,      *)
(* invalid channels, build; a cell starts only with what the cells before  *)
(* it bound; a raised error ends the run: after it nothing changes, no     *)
(* cell runs again, and no signal object exists.                           *)
C9_LinearAndFatal ==
    [][ /\ pc' # pc =>
              \/ <<pc, pc'>> \in StageOrder
              \/ pc' = "aborted" /\ pc \notin {"done", "aborted"}
        /\ (pc' = "aborted") <=> (err' # << >>)
        /\ err # << >> => vars' = vars
        /\ err' # << >> => (info' = << >> /\ raw' = << >>)
        /\ pc' = "params" => nwb' # << >>
        /\ pc' = "extract" => (nwb' # << >> /\ start' # << >> /\ num_secs' # << >>)
        /\ pc' = "baseline" => (signal' # << >> /\ fs' # << >> /\ n_channels' # << >>)
        /\ pc' = "bads" => (signal' # << >> /\ start_break' # << >> /\ stop_break' # << >>)
        /\ pc' = "build" => (start_break' # << >> /\ bads' # << >>)
        /\ pc' = "done" => (bads' # << >> /\ raw' # << >> /\ err' = << >>)
        /\ raw' # << >> => pc' = "done"
      ]_vars

C9_Witness ==
    /\ pc = "aborted"
    /\ err = <<[kind |-> "FormatError", at |-> "open"]>>
    /\ nwb = << >>
    /\ signal = << >>
    /\ raw = << >>

(* C10.  Every invalid-channel identifier of the signal object names one   *)
(* of its channels: it is the decimal string of an integer in              *)
(* 0 .. channel_count - 1.  (The statement of the claim; the notebook      *)
(* passes on every flagged row of the electrode table.)                    *)
C10_BadsNameChannels ==
    raw # << >> =>
        /\ raw[1].info.nchan = signal[1].ncols
        /\ \A j \in 1 .. Len(raw[1].info.bads) :
              /\ IsIndexString(raw[1].info.bads[j])
              /\ DecimalValue(raw[1].info.bads[j]) \in 0 .. raw[1].info.nchan - 1

====
